---- MODULE Spec2Model ----
(***************************************************************************)
(* Verification model of cambai-gemma-rs: the translation engine           *)
(* (src/gemma.rs), the transcription client (src/asr.rs) and the HTTP      *)
(* front end (src/ui.rs).  Strings are sequences of one-character strings  *)
(* so that trimming, lower-casing, searching and concatenation are         *)
(* computed, not assumed.                                                  *)
(***************************************************************************)
EXTENDS Integers, Sequences, FiniteSets, TLC

VARIABLES
    \* ---- POST /translate and gemma::translate ----
    req,            \* JobReq {direction, text} of the request being served
    modelExists,    \* whether cfg.model_path exists on disk
    h_pc,           \* position of the ui::translate handler
    t_pc,           \* position of gemma::translate
    dir,            \* the parsed Direction
    prompt,         \* the prompt built by gemma::translate
    exeIdx,         \* index of the next candidate in try_llama_cpp_cli
    cli,            \* the Result of try_llama_cpp_cli
    invoked,        \* executables spawned so far, in order
    firstSuccess,   \* index of the first candidate that exited with success, 0 if none
    usable,         \* index and text of the first run that printed text after the marker
    modelChecked,   \* whether Path::exists was evaluated
    lookups,        \* number of phrase-table matches evaluated
    usedFallback,   \* whether translate took the rule-based fallback
    t_result,       \* the Result<String> of gemma::translate
    response,       \* the HttpResponse of the handler
    \* ---- asr::transcribe_wav ----
    a_cfg,          \* AsrConfig {api_key, use_local}
    a_pc,           \* position of transcribe_wav
    epIdx,          \* index of the next local endpoint
    audioLoaded,    \* whether the WAV file was opened and read
    contacted,      \* the requests sent so far, in order, and how each one ended
    hosted,         \* what the hosted endpoint's request produced
    answeredBy,     \* URL of the backend whose text was taken, "" if none
    a_answer,       \* the text the answering backend returned
    a_result,       \* the Result<String> of transcribe_wav
    \* ---- /stats and /reset-stats ----
    tracker,        \* PERFORMANCE_TRACKER {peak_cpu, peak_mem, history, max_history}
    lockHolder,     \* worker holding the tracker mutex, 0 when free
    w_pc,           \* position of each worker's handler
    w_sample,       \* the PerfData each worker measured
    clock,          \* seconds since the epoch, as read by SystemTime::now
    readings,       \* the (cpu, mem) values sysinfo can report in this run
    recorded        \* every sample pushed since the last reset, in push order

translateVars == <<req, modelExists, h_pc, t_pc, dir, prompt, exeIdx, cli, invoked,
                   firstSuccess, usable,
                   modelChecked, lookups, usedFallback, t_result, response>>
asrVars == <<a_cfg, a_pc, audioLoaded, epIdx, contacted, hosted, answeredBy, a_answer,
            a_result>>
statsVars == <<tracker, lockHolder, w_pc, w_sample, clock, readings, recorded>>
vars == <<translateVars, asrVars, statsVars>>

(***************************************************************************)
(* Bounds of the model.                                                    *)
(***************************************************************************)
MaxInputLen == 3      \* longest exhaustively enumerated request text
MaxStdoutLen == 3     \* longest exhaustively enumerated subprocess stdout
MaxTextLen == 3       \* longest exhaustively enumerated transcription text
MaxClock == 63        \* number of /stats measurements in one behaviour
ConcWorkers == 2      \* server workers handling requests at the same time
ConcRequests == 3     \* /stats measurements in one behaviour with concurrent workers

(***************************************************************************)
(* Strings.                                                                *)
(***************************************************************************)
Min(S) == CHOOSE x \in S : \A y \in S : x <= y
Max(S) == CHOOSE x \in S : \A y \in S : x >= y

BoundedStrings(A, n) == UNION {[1..k -> A] : k \in 0..n}

\* char::is_whitespace for the characters of the model
IsWhitespace(c) == c \in {" ", "\t", "\n"}

\* str::trim: drop leading and trailing whitespace
Trim(s) ==
    LET keep == {i \in 1..Len(s) : ~IsWhitespace(s[i])}
    IN  IF keep = {} THEN <<>> ELSE SubSeq(s, Min(keep), Max(keep))

UpperChars == <<"A", "B", "C", "D", "E", "F", "G", "H", "I", "J", "K", "L", "M",
                "N", "O", "P", "Q", "R", "S", "T", "U", "V", "W", "X", "Y", "Z",
                "Á", "É", "Í", "Ó", "Ú", "Ñ">>
LowerChars == <<"a", "b", "c", "d", "e", "f", "g", "h", "i", "j", "k", "l", "m",
                "n", "o", "p", "q", "r", "s", "t", "u", "v", "w", "x", "y", "z",
                "á", "é", "í", "ó", "ú", "ñ">>

\* char::to_lowercase
ToLowerChar(c) ==
    IF \E i \in 1..Len(UpperChars) : UpperChars[i] = c
    THEN LowerChars[CHOOSE i \in 1..Len(UpperChars) : UpperChars[i] = c]
    ELSE c

\* str::to_lowercase
ToLowercase(s) == [i \in 1..Len(s) |-> ToLowerChar(s[i])]

\* Result<String>
Ok(v) == [ok |-> TRUE, val |-> v, err |-> "none"]
Err(e) == [ok |-> FALSE, val |-> <<>>, err |-> e]
Pending == [ok |-> FALSE, val |-> <<>>, err |-> "pending"]

(***************************************************************************)
(* gemma.rs                                                                *)
(***************************************************************************)
\* Direction::from_str
from_str_lenient(s) ==
    CASE s \in {"en-es", "En-Es", "en-es "} -> "EnToEs"
      [] s \in {"es-en", "ES-EN", " es-en"} -> "EsToEn"
      [] OTHER -> "None"
from_str(s) ==
    CASE s = "en-es" -> "EnToEs"
      [] s = "es-en" -> "EsToEn"
      [] OTHER -> "None"

\* translate, line 26: input.trim().is_empty()
IsBlank_noTrim(input) == input = <<>>
IsBlank(input) == Trim(input) = <<>>

SystemPrompt(d) ==
    IF d = "EsToEn"
    THEN "You are a professional translator. Translate the following Spanish text to English. Only provide the translation, nothing else."
    ELSE "You are a professional translator. Translate the following English text to Spanish. Only provide the translation, nothing else."

ModelMarker == "<start_of_turn>model"

\* translate, lines 43-47: the Gemma turn template around the trimmed input
BuildPrompt(d, input) ==
    <<"<start_of_turn>system", "\n", SystemPrompt(d), "\n", "<end_of_turn>", "\n",
      "<start_of_turn>user", "\n">> \o Trim(input)
    \o <<"\n", "<end_of_turn>", "\n", ModelMarker, "\n">>

executables == <<"llama", "llama-cli", "main", "./llama.cpp/main">>

InvalidByte == "\\xFF"
ReplacementChar == "U+FFFD"

\* String::from_utf8_lossy
FromUtf8Lossy(bytes) ==
    [i \in 1..Len(bytes) |-> IF bytes[i] = InvalidByte THEN ReplacementChar ELSE bytes[i]]

\* str::find: index of the first occurrence at or after from, 0 if none
Find(s, c, from) ==
    LET hits == {i \in from..Len(s) : s[i] = c}
    IN  IF hits = {} THEN 0 ELSE Min(hits)

\* ExitStatus::success of a run that could be spawned
ExitedWithSuccess(out) == out.kind = "exited" /\ out.success

\* the part of s after the first occurrence of c, if there is one
RECURSIVE AfterFirst(_, _)
AfterFirst(s, c) ==
    IF s = <<>> THEN [found |-> FALSE, rest |-> <<>>]
    ELSE IF Head(s) = c THEN [found |-> TRUE, rest |-> Tail(s)]
    ELSE AfterFirst(Tail(s), c)

RECURSIVE StripLeft(_)
StripLeft(s) ==
    IF s # <<>> /\ IsWhitespace(Head(s)) THEN StripLeft(Tail(s)) ELSE s

RECURSIVE StripRight(_)
StripRight(s) ==
    IF s # <<>> /\ IsWhitespace(s[Len(s)]) THEN StripRight(SubSeq(s, 1, Len(s) - 1)) ELSE s

\* what a run printed after the marker line, stripped; empty if no marker line
TextAfterMarker(stdout) ==
    LET marked == AfterFirst(FromUtf8Lossy(stdout), ModelMarker)
        line == AfterFirst(marked.rest, "\n")
    IN  IF marked.found /\ line.found THEN StripRight(StripLeft(line.rest)) ELSE <<>>

NoUsable == [idx |-> 0, text |-> <<>>]

\* try_llama_cpp_cli, lines 121-131: what one candidate's run contributes
ExtractTranslation_anyExit(out) ==
    IF out.kind = "exited"
    THEN LET result == FromUtf8Lossy(out.stdout)
             model_start == Find(result, ModelMarker, 1)
             newline == IF model_start = 0 THEN 0 ELSE Find(result, "\n", model_start)
             translation == IF newline = 0 THEN <<>>
                            ELSE Trim(SubSeq(result, newline + 1, Len(result)))
         IN  [some |-> translation # <<>>, val |-> translation]
    ELSE [some |-> FALSE, val |-> <<>>]
ExtractTranslation(out) ==
    IF out.kind = "exited" /\ out.success
    THEN LET result == FromUtf8Lossy(out.stdout)
             model_start == Find(result, ModelMarker, 1)
             newline == IF model_start = 0 THEN 0 ELSE Find(result, "\n", model_start)
             translation == IF newline = 0 THEN <<>>
                            ELSE Trim(SubSeq(result, newline + 1, Len(result)))
         IN  [some |-> translation # <<>>, val |-> translation]
    ELSE [some |-> FALSE, val |-> <<>>]

EsToEnArms ==
    << [pats |-> {<<"h", "o", "l", "a">>},
        val |-> <<"H", "e", "l", "l", "o">>],
       [pats |-> {<<"a", "d", "i", "ó", "s">>, <<"a", "d", "i", "o", "s">>},
        val |-> <<"G", "o", "o", "d", "b", "y", "e">>],
       [pats |-> {<<"g", "r", "a", "c", "i", "a", "s">>},
        val |-> <<"T", "h", "a", "n", "k", " ", "y", "o", "u">>],
       [pats |-> {<<"p", "o", "r", " ", "f", "a", "v", "o", "r">>},
        val |-> <<"P", "l", "e", "a", "s", "e">>],
       [pats |-> {<<"l", "o", " ", "s", "i", "e", "n", "t", "o">>},
        val |-> <<"I", "'", "m", " ", "s", "o", "r", "r", "y">>],
       [pats |-> {<<"s", "í">>, <<"s", "i">>},
        val |-> <<"Y", "e", "s">>],
       [pats |-> {<<"n", "o">>},
        val |-> <<"N", "o">>],
       [pats |-> {<<"b", "u", "e", "n", "o", "s", " ", "d", "í", "a", "s">>, <<"b", "u", "e", "n", "o", "s", " ", "d", "i", "a", "s">>},
        val |-> <<"G", "o", "o", "d", " ", "m", "o", "r", "n", "i", "n", "g">>],
       [pats |-> {<<"b", "u", "e", "n", "a", "s", " ", "n", "o", "c", "h", "e", "s">>},
        val |-> <<"G", "o", "o", "d", " ", "n", "i", "g", "h", "t">>],
       [pats |-> {<<"¿", "c", "ó", "m", "o", " ", "e", "s", "t", "á", "s", "?">>, <<"c", "o", "m", "o", " ", "e", "s", "t", "a", "s">>},
        val |-> <<"H", "o", "w", " ", "a", "r", "e", " ", "y", "o", "u", "?">>] >>
EnToEsArms ==
    << [pats |-> {<<"h", "e", "l", "l", "o">>, <<"h", "i">>},
        val |-> <<"H", "o", "l", "a">>],
       [pats |-> {<<"g", "o", "o", "d", "b", "y", "e">>, <<"b", "y", "e">>},
        val |-> <<"A", "d", "i", "ó", "s">>],
       [pats |-> {<<"t", "h", "a", "n", "k", " ", "y", "o", "u">>, <<"t", "h", "a", "n", "k", "s">>},
        val |-> <<"G", "r", "a", "c", "i", "a", "s">>],
       [pats |-> {<<"p", "l", "e", "a", "s", "e">>},
        val |-> <<"P", "o", "r", " ", "f", "a", "v", "o", "r">>],
       [pats |-> {<<"s", "o", "r", "r", "y">>, <<"i", "'", "m", " ", "s", "o", "r", "r", "y">>},
        val |-> <<"L", "o", " ", "s", "i", "e", "n", "t", "o">>],
       [pats |-> {<<"y", "e", "s">>},
        val |-> <<"S", "í">>],
       [pats |-> {<<"n", "o">>},
        val |-> <<"N", "o">>],
       [pats |-> {<<"g", "o", "o", "d", " ", "m", "o", "r", "n", "i", "n", "g">>},
        val |-> <<"B", "u", "e", "n", "o", "s", " ", "d", "í", "a", "s">>],
       [pats |-> {<<"g", "o", "o", "d", " ", "n", "i", "g", "h", "t">>},
        val |-> <<"B", "u", "e", "n", "a", "s", " ", "n", "o", "c", "h", "e", "s">>],
       [pats |-> {<<"h", "o", "w", " ", "a", "r", "e", " ", "y", "o", "u", "?">>, <<"h", "o", "w", " ", "a", "r", "e", " ", "y", "o", "u">>},
        val |-> <<"¿", "C", "ó", "m", "o", " ", "e", "s", "t", "á", "s", "?">>] >>

\* translate, line 64 / line 80: the match scrutinee
FallbackKey_noLower(input) == Trim(input)
FallbackKey(input) == Trim(ToLowercase(input))

Tag(d) ==
    IF d = "EsToEn"
    THEN <<"[", "T", "r", "a", "n", "s", "l", "a", "t", "i", "o", "n", "]", " ">>
    ELSE <<"[", "T", "r", "a", "d", "u", "c", "c", "i", "ó", "n", "]", " ">>

\* translate, line 75 / line 91: the wildcard arm
Placeholder_trimmed(d, input) == Tag(d) \o Trim(input)
Placeholder(d, input) == Tag(d) \o input

Arms(d) == IF d = "EsToEn" THEN EsToEnArms ELSE EnToEsArms

\* translate, lines 61-94: the first arm whose pattern equals the key
Fallback(d, input) ==
    LET arms == Arms(d)
        key == FallbackKey(input)
        hits == {i \in 1..Len(arms) : key \in arms[i].pats}
    IN  IF hits = {} THEN Placeholder(d, input) ELSE arms[Min(hits)].val

\* translate, lines 51-97: the primary result if usable, else the fallback
TranslateAfterCli_propagate(c, d, input) ==
    IF c.ok /\ Trim(c.val) # <<>>
    THEN [result |-> Ok(Trim(c.val)), fallback |-> FALSE]
    ELSE IF ~c.ok
         THEN [result |-> Err(c.err), fallback |-> FALSE]
         ELSE [result |-> Ok(Fallback(d, input)), fallback |-> TRUE]
TranslateAfterCli(c, d, input) ==
    IF c.ok /\ Trim(c.val) # <<>>
    THEN [result |-> Ok(Trim(c.val)), fallback |-> FALSE]
    ELSE [result |-> Ok(Fallback(d, input)), fallback |-> TRUE]

(***************************************************************************)
(* Inputs of the translation model.                                        *)
(***************************************************************************)
InputAlphabet == {"n", "N", "o", " "}

SampleInputs ==
    { <<"h", "o", "l", "a">>,
      <<"H", "O", "L", "A">>,
      <<" ", "H", "o", "l", "a", "\n">>,
      <<"H", "o", "w", " ", "a", "r", "e", " ", "y", "o", "u", "?">>,
      <<"\t", "H", "O", "W", " ", "A", "R", "E", " ", "Y", "O", "U", "?">>,
      <<"¿", "C", "Ó", "M", "O", " ", "E", "S", "T", "Á", "S", "?">>,
      <<"S", "Í">>,
      <<"S", "i">>,
      <<"h", "o", "l", "a", " ", "a", "m", "i", "g", "o">>,
      <<" ", "\t", "\n">> }

Inputs == BoundedStrings(InputAlphabet, MaxInputLen) \cup SampleInputs

DirTokens == {"es-en", "en-es", "ES-EN", "En-Es", " es-en", "en-es ", "", "fr-en"}

StdoutTokens == {ModelMarker, "\n", "H", InvalidByte}

SampleStdouts ==
    { <<"<start_of_turn>user", "\n", "h", "o", "l", "a", "\n", "<end_of_turn>", "\n",
        ModelMarker, "\n", "H", "e", "l", "l", "o", "\n">>,
      <<ModelMarker, "\n", " ", "H", "i", " ", "\n">>,
      <<"H", "e", "l", "l", "o">> }

Stdouts == BoundedStrings(StdoutTokens, MaxStdoutLen) \cup SampleStdouts

\* what Command::output can give: a spawn error, or an exit status and stdout
\* (a failed run prints nothing or one of the sample outputs)
ExeOutcomes ==
    {[kind |-> "spawn_err", success |-> FALSE, stdout |-> <<>>]}
    \cup {[kind |-> "exited", success |-> TRUE, stdout |-> s] : s \in Stdouts}
    \cup {[kind |-> "exited", success |-> FALSE, stdout |-> s] :
              s \in SampleStdouts \cup {<<>>}}

NoResponse == [status |-> 0, body |-> [ok |-> FALSE]]

TranslateIdle ==
    /\ req = [direction |-> "", text |-> <<>>]
    /\ modelExists = FALSE
    /\ h_pc = "off"
    /\ t_pc = "idle"
    /\ dir = "None"
    /\ prompt = <<>>
    /\ exeIdx = 1
    /\ cli = Pending
    /\ invoked = <<>>
    /\ firstSuccess = 0
    /\ usable = NoUsable
    /\ modelChecked = FALSE
    /\ lookups = 0
    /\ usedFallback = FALSE
    /\ t_result = Pending
    /\ response = NoResponse

\* a POST /translate request has arrived with a JSON body {direction, text}
TranslateInit ==
    /\ req \in [direction : DirTokens, text : Inputs]
    /\ modelExists \in BOOLEAN
    /\ h_pc = "recv"
    /\ t_pc = "idle"
    /\ dir = "None"
    /\ prompt = <<>>
    /\ exeIdx = 1
    /\ cli = Pending
    /\ invoked = <<>>
    /\ firstSuccess = 0
    /\ usable = NoUsable
    /\ modelChecked = FALSE
    /\ lookups = 0
    /\ usedFallback = FALSE
    /\ t_result = Pending
    /\ response = NoResponse

(***************************************************************************)
(* ui.rs: POST /translate, and the gemma::translate call it makes.         *)
(***************************************************************************)
\* ui::translate, lines 165-181: the JSON envelope for the engine's Result
TranslateResponse_alwaysOk(r, res) ==
    IF res.ok
    THEN [status |-> 200,
          body |-> [ok |-> TRUE, direction |-> r.direction,
                    original |-> r.text, translated |-> res.val]]
    ELSE [status |-> 200,
          body |-> [ok |-> FALSE, error |-> <<"Translation failed: ", res.err>>]]
TranslateResponse(r, res) ==
    IF res.ok
    THEN [status |-> 200,
          body |-> [ok |-> TRUE, direction |-> r.direction,
                    original |-> r.text, translated |-> res.val]]
    ELSE [status |-> 500,
          body |-> [ok |-> FALSE, error |-> <<"Translation failed: ", res.err>>]]

\* ui::translate, lines 148-156: unknown direction token
UiTranslateBadDirection ==
    /\ h_pc = "recv"
    /\ from_str(req.direction) = "None"
    /\ h_pc' = "responded"
    /\ response' = [status |-> 400,
                    body |-> [ok |-> FALSE,
                              error |-> "Invalid direction. Use 'es-en' or 'en-es'"]]
    /\ UNCHANGED <<req, modelExists, t_pc, dir, prompt, exeIdx, cli, invoked,
                   modelChecked, lookups, usedFallback, t_result>>
    /\ UNCHANGED <<firstSuccess, usable>>
    /\ UNCHANGED <<asrVars, statsVars>>

\* ui::translate, lines 148-165: direction parsed, gemma_translate entered
UiTranslateCall ==
    /\ h_pc = "recv"
    /\ from_str(req.direction) # "None"
    /\ dir' = from_str(req.direction)
    /\ h_pc' = "calling"
    /\ t_pc' = "entry"
    /\ UNCHANGED <<req, modelExists, prompt, exeIdx, cli, invoked, modelChecked,
                   lookups, usedFallback, t_result, response>>
    /\ UNCHANGED <<firstSuccess, usable>>
    /\ UNCHANGED <<asrVars, statsVars>>

\* gemma::translate, lines 26-28
TranslateBlank ==
    /\ t_pc = "entry"
    /\ IsBlank(req.text)
    /\ t_result' = Ok(<<>>)
    /\ t_pc' = "done"
    /\ UNCHANGED <<req, modelExists, h_pc, dir, prompt, exeIdx, cli, invoked,
                   modelChecked, lookups, usedFallback, response>>
    /\ UNCHANGED <<firstSuccess, usable>>
    /\ UNCHANGED <<asrVars, statsVars>>

\* gemma::translate, lines 31-33
TranslateModelMissing ==
    /\ t_pc = "entry"
    /\ ~IsBlank(req.text)
    /\ modelChecked' = TRUE
    /\ ~modelExists
    /\ t_result' = Err("Gemma model not found")
    /\ t_pc' = "done"
    /\ UNCHANGED <<req, modelExists, h_pc, dir, prompt, exeIdx, cli, invoked,
                   lookups, usedFallback, response>>
    /\ UNCHANGED <<firstSuccess, usable>>
    /\ UNCHANGED <<asrVars, statsVars>>

\* gemma::translate, lines 31-51: model present, prompt built, CLI probing entered
TranslateBuildPrompt ==
    /\ t_pc = "entry"
    /\ ~IsBlank(req.text)
    /\ modelChecked' = TRUE
    /\ modelExists
    /\ prompt' = BuildPrompt(dir, req.text)
    /\ exeIdx' = 1
    /\ t_pc' = "cli"
    /\ UNCHANGED <<req, modelExists, h_pc, dir, cli, invoked, lookups, usedFallback,
                   t_result, response>>
    /\ UNCHANGED <<firstSuccess, usable>>
    /\ UNCHANGED <<asrVars, statsVars>>

\* try_llama_cpp_cli, lines 105-134: one iteration of the loop over executables
TryExecutable ==
    /\ t_pc = "cli"
    /\ exeIdx <= Len(executables)
    /\ \E out \in ExeOutcomes :
        LET got == ExtractTranslation(out)
        IN  /\ invoked' = Append(invoked, executables[exeIdx])
            /\ firstSuccess' = IF firstSuccess = 0 /\ ExitedWithSuccess(out)
                               THEN exeIdx ELSE firstSuccess
            /\ usable' = IF usable.idx = 0 /\ ExitedWithSuccess(out)
                                /\ TextAfterMarker(out.stdout) # <<>>
                         THEN [idx |-> exeIdx, text |-> TextAfterMarker(out.stdout)]
                         ELSE usable
            /\ IF got.some
               THEN /\ cli' = Ok(got.val)
                    /\ t_pc' = "after_cli"
                    /\ exeIdx' = exeIdx
               ELSE /\ exeIdx' = exeIdx + 1
                    /\ UNCHANGED <<cli, t_pc>>
    /\ UNCHANGED <<req, modelExists, h_pc, dir, prompt, modelChecked, lookups,
                   usedFallback, t_result, response>>
    /\ UNCHANGED <<asrVars, statsVars>>

\* try_llama_cpp_cli, line 136: every candidate tried, none usable
CliExhausted ==
    /\ t_pc = "cli"
    /\ exeIdx > Len(executables)
    /\ cli' = Err("No working llama.cpp executable found")
    /\ t_pc' = "after_cli"
    /\ UNCHANGED <<req, modelExists, h_pc, dir, prompt, exeIdx, invoked, modelChecked,
                   lookups, usedFallback, t_result, response>>
    /\ UNCHANGED <<firstSuccess, usable>>
    /\ UNCHANGED <<asrVars, statsVars>>

\* gemma::translate, lines 51-97
TranslateFinish ==
    /\ t_pc = "after_cli"
    /\ LET r == TranslateAfterCli(cli, dir, req.text)
       IN  /\ t_result' = r.result
           /\ usedFallback' = r.fallback
           /\ lookups' = IF r.fallback THEN lookups + 1 ELSE lookups
    /\ t_pc' = "done"
    /\ UNCHANGED <<req, modelExists, h_pc, dir, prompt, exeIdx, cli, invoked,
                   modelChecked, response>>
    /\ UNCHANGED <<firstSuccess, usable>>
    /\ UNCHANGED <<asrVars, statsVars>>

\* ui::translate, lines 165-181: the JSON envelope
UiTranslateRespond ==
    /\ h_pc = "calling"
    /\ t_pc = "done"
    /\ response' = TranslateResponse(req, t_result)
    /\ h_pc' = "responded"
    /\ UNCHANGED <<req, modelExists, t_pc, dir, prompt, exeIdx, cli, invoked,
                   modelChecked, lookups, usedFallback, t_result>>
    /\ UNCHANGED <<firstSuccess, usable>>
    /\ UNCHANGED <<asrVars, statsVars>>

TranslateNext ==
    \/ UiTranslateBadDirection
    \/ UiTranslateCall
    \/ TranslateBlank
    \/ TranslateModelMissing
    \/ TranslateBuildPrompt
    \/ TryExecutable
    \/ CliExhausted
    \/ TranslateFinish
    \/ UiTranslateRespond

(***************************************************************************)
(* asr.rs                                                                  *)
(***************************************************************************)
OpenAiUrl == "https://api.openai.com/v1/audio/transcriptions"

endpoints ==
    <<"http://localhost:8000/transcribe",
      "http://localhost:5000/transcribe",
      "http://127.0.0.1:8000/transcribe">>

TextAlphabet == {"a", " ", "\n"}

SampleTexts ==
    { <<" ", " ", "h", "e", "l", "l", "o", " ", "w", "o", "r", "l", "d", " ", " ">>,
      <<"h", "e", "l", "l", "o", " ", "w", "o", "r", "l", "d">>,
      <<" ", " ", " ", "\t">> }

Texts == BoundedStrings(TextAlphabet, MaxTextLen) \cup SampleTexts

\* an HTTP response body: whether it can be read to the end, and what it holds
Bodies ==
    {[readable |-> r, format |-> "json_text", text |-> t] : r \in BOOLEAN, t \in Texts}
    \cup {[readable |-> r, format |-> f, text |-> <<>>] :
              r \in BOOLEAN, f \in {"json_other", "garbage"}}

StatusCodes == {200, 201, 401, 500}

NoOutcome ==
    [kind |-> "none", status |-> 0,
     body |-> [readable |-> FALSE, format |-> "garbage", text |-> <<>>]]

\* what RequestBuilder::send can give: a transport error, or a response
HttpOutcomes ==
    {[kind |-> "send_err", status |-> 0,
      body |-> [readable |-> FALSE, format |-> "garbage", text |-> <<>>]]}
    \cup {[kind |-> "response", status |-> s, body |-> b] : s \in StatusCodes, b \in Bodies}

\* StatusCode::is_success
is_success(status) == status >= 200 /\ status <= 299

\* the characters of a body
RawBody(b) ==
    CASE b.format = "json_text" -> <<"{\"text\":\"">> \o b.text \o <<"\"}">>
      [] b.format = "json_other" -> <<"{\"error\":\"x\"}">>
      [] OTHER -> <<"<html>">>

\* Response::text().await.unwrap_or_default()
TextOrDefault(b) == IF b.readable THEN RawBody(b) ELSE <<>>

\* Response::json::<WhisperResponse>()
ParseWhisperResponse(b) ==
    IF b.readable /\ b.format = "json_text"
    THEN [some |-> TRUE, text |-> b.text]
    ELSE [some |-> FALSE, text |-> <<>>]

\* the record of one request: where it went and how it ended
Contact(url, o) ==
    [url |-> url, kind |-> o.kind, status |-> o.status,
     parses |-> o.kind = "response" /\ o.body.readable /\ o.body.format = "json_text"]

ErrWith(e, payload) == [ok |-> FALSE, val |-> payload, err |-> e]

\* call_local_whisper_api, lines 123-143: whether a candidate's answer is taken
LocalAccepts_anyStatus(o) ==
    /\ o.kind = "response"
    /\ ParseWhisperResponse(o.body).some
LocalAccepts(o) ==
    /\ o.kind = "response"
    /\ is_success(o.status)
    /\ ParseWhisperResponse(o.body).some

\* transcribe_wav_async, lines 40-44: the backend the configuration selects
Backend_localWithoutKey(cfg) ==
    IF cfg.use_local \/ cfg.api_key = "None" THEN "local" ELSE "openai"
Backend(cfg) == IF cfg.use_local THEN "local" ELSE "openai"

\* call_openai_whisper_api, lines 77-89: the Result of one request
OpenAiResult(o) ==
    IF o.kind = "send_err"
    THEN Err("Failed to send request to OpenAI")
    ELSE IF ~is_success(o.status)
         THEN ErrWith("OpenAI API error", TextOrDefault(o.body))
         ELSE IF ParseWhisperResponse(o.body).some
              THEN Ok(ParseWhisperResponse(o.body).text)
              ELSE Err("Failed to parse OpenAI response")

\* transcribe_wav_async, lines 46-51
FinishTranscription_emptyOnly(text) ==
    IF text = <<>>
    THEN Err("No speech detected in audio file")
    ELSE Ok(text)
FinishTranscription(text) ==
    IF Trim(text) = <<>>
    THEN Err("No speech detected in audio file")
    ELSE Ok(text)

AsrIdle ==
    /\ a_cfg = [api_key |-> "None", use_local |-> FALSE]
    /\ a_pc = "off"
    /\ audioLoaded = FALSE
    /\ hosted = NoOutcome
    /\ epIdx = 1
    /\ contacted = <<>>
    /\ answeredBy = ""
    /\ a_answer = <<>>
    /\ a_result = Pending

\* transcribe_wav has been called with a path and an AsrConfig
AsrInit ==
    /\ a_cfg \in [api_key : {"None", "Some"}, use_local : BOOLEAN]
    /\ a_pc = "start"
    /\ audioLoaded = FALSE
    /\ hosted = NoOutcome
    /\ epIdx = 1
    /\ contacted = <<>>
    /\ answeredBy = ""
    /\ a_answer = <<>>
    /\ a_result = Pending

\* transcribe_wav, line 24: Runtime::new()?
AsrRuntimeNew ==
    /\ a_pc = "start"
    /\ \E ok \in BOOLEAN :
         IF ok
         THEN a_pc' = "open" /\ UNCHANGED a_result
         ELSE a_pc' = "done" /\ a_result' = Err("failed to create runtime")
    /\ UNCHANGED <<a_cfg, audioLoaded, epIdx, contacted, hosted, answeredBy, a_answer>>
    /\ UNCHANGED <<translateVars, statsVars>>

\* transcribe_wav_async, line 30: WavReader::open(path)?
AsrOpenWav ==
    /\ a_pc = "open"
    /\ \E ok \in BOOLEAN :
         IF ok
         THEN a_pc' = "read" /\ UNCHANGED a_result
         ELSE a_pc' = "done" /\ a_result' = Err("failed to open WAV")
    /\ UNCHANGED <<a_cfg, audioLoaded, epIdx, contacted, hosted, answeredBy, a_answer>>
    /\ UNCHANGED <<translateVars, statsVars>>

\* transcribe_wav_async, lines 36-44: read the bytes, pick the backend
AsrReadFile ==
    /\ a_pc = "read"
    /\ \E ok \in BOOLEAN :
         IF ok
         THEN /\ a_pc' = Backend(a_cfg)
              /\ audioLoaded' = TRUE
              /\ UNCHANGED a_result
         ELSE /\ a_pc' = "done"
              /\ a_result' = Err("Failed to read audio file")
              /\ UNCHANGED audioLoaded
    /\ UNCHANGED <<a_cfg, epIdx, contacted, hosted, answeredBy, a_answer>>
    /\ UNCHANGED <<translateVars, statsVars>>

\* call_openai_whisper_api, lines 56-57: no key
OpenAiNoKey ==
    /\ a_pc = "openai"
    /\ a_cfg.api_key = "None"
    /\ a_result' = Err("OpenAI API key required")
    /\ a_pc' = "done"
    /\ UNCHANGED <<a_cfg, audioLoaded, epIdx, contacted, hosted, answeredBy, a_answer>>
    /\ UNCHANGED <<translateVars, statsVars>>

\* call_openai_whisper_api, lines 59-89: one POST to the hosted endpoint
OpenAiSend ==
    /\ a_pc = "openai"
    /\ a_cfg.api_key # "None"
    /\ \E o \in HttpOutcomes :
         LET r == OpenAiResult(o)
         IN  /\ contacted' = Append(contacted, Contact(OpenAiUrl, o))
             /\ hosted' = o
             /\ IF r.ok
                THEN /\ a_answer' = r.val
                     /\ answeredBy' = OpenAiUrl
                     /\ a_pc' = "post"
                     /\ UNCHANGED a_result
                ELSE /\ a_result' = r
                     /\ a_pc' = "done"
                     /\ UNCHANGED <<a_answer, answeredBy>>
    /\ UNCHANGED <<a_cfg, audioLoaded, epIdx>>
    /\ UNCHANGED <<translateVars, statsVars>>

\* call_local_whisper_api, lines 103-144: one iteration of the loop over endpoints
LocalTry ==
    /\ a_pc = "local"
    /\ epIdx <= Len(endpoints)
    /\ \E o \in HttpOutcomes :
         /\ contacted' = Append(contacted, Contact(endpoints[epIdx], o))
         /\ IF LocalAccepts(o)
            THEN /\ a_answer' = ParseWhisperResponse(o.body).text
                 /\ answeredBy' = endpoints[epIdx]
                 /\ a_pc' = "post"
                 /\ UNCHANGED epIdx
            ELSE /\ epIdx' = epIdx + 1
                 /\ UNCHANGED <<a_answer, answeredBy, a_pc>>
    /\ UNCHANGED <<a_cfg, audioLoaded, hosted, a_result>>
    /\ UNCHANGED <<translateVars, statsVars>>

\* call_local_whisper_api, line 146: every endpoint tried, none accepted
LocalExhausted ==
    /\ a_pc = "local"
    /\ epIdx > Len(endpoints)
    /\ a_result' = Err("No local Whisper API found")
    /\ a_pc' = "done"
    /\ UNCHANGED <<a_cfg, audioLoaded, epIdx, contacted, hosted, answeredBy, a_answer>>
    /\ UNCHANGED <<translateVars, statsVars>>

\* transcribe_wav_async, lines 46-51
AsrFinish ==
    /\ a_pc = "post"
    /\ a_result' = FinishTranscription(a_answer)
    /\ a_pc' = "done"
    /\ UNCHANGED <<a_cfg, audioLoaded, epIdx, contacted, hosted, answeredBy, a_answer>>
    /\ UNCHANGED <<translateVars, statsVars>>

AsrNext ==
    \/ AsrRuntimeNew
    \/ AsrOpenWav
    \/ AsrReadFile
    \/ OpenAiNoKey
    \/ OpenAiSend
    \/ LocalTry
    \/ LocalExhausted
    \/ AsrFinish

(***************************************************************************)
(* ui.rs: GET /stats and POST /reset-stats on the shared PERFORMANCE_TRACKER *)
(***************************************************************************)
\* lazy_static PERFORMANCE_TRACKER, lines 36-44
NewTracker == [peak_cpu |-> 0, peak_mem |-> 0, history |-> <<>>, max_history |-> 60]

NoSample == [timestamp |-> 0, cpu_usage |-> 0, mem_used_mb |-> 0]

Workers == DOMAIN w_pc

\* stats, lines 99-104
UpdatePeaks_lastWins(t, cpu, mem) == [t EXCEPT !.peak_cpu = cpu, !.peak_mem = mem]
UpdatePeaks(t, cpu, mem) ==
    [t EXCEPT !.peak_cpu = IF cpu > t.peak_cpu THEN cpu ELSE t.peak_cpu,
              !.peak_mem = IF mem > t.peak_mem THEN mem ELSE t.peak_mem]

\* stats, lines 110-112: history.remove(0) once the length exceeds max_history
KeepRecent_dropNewest(h, max) == IF Len(h) > max THEN SubSeq(h, 1, Len(h) - 1) ELSE h
KeepRecent(h, max) == IF Len(h) > max THEN Tail(h) ELSE h

StatsIdle ==
    /\ tracker = NewTracker
    /\ lockHolder = 0
    /\ w_pc = <<>>
    /\ w_sample = <<>>
    /\ clock = 0
    /\ readings = {}
    /\ recorded = <<>>

\* the server has started; one worker serves the UI's periodic polls in turn
StatsSeqInit ==
    /\ tracker = NewTracker
    /\ lockHolder = 0
    /\ w_pc = [w \in {1} |-> "idle"]
    /\ w_sample = [w \in {1} |-> NoSample]
    /\ clock = 0
    /\ readings = {[cpu |-> 3, mem |-> 40]}
    /\ recorded = <<>>

\* the server has started; several workers serve requests at the same time and
\* the process's cpu and memory readings vary from one measurement to the next
StatsConcInit ==
    /\ tracker = NewTracker
    /\ lockHolder = 0
    /\ w_pc = [w \in 1..ConcWorkers |-> "idle"]
    /\ w_sample = [w \in 1..ConcWorkers |-> NoSample]
    /\ clock = MaxClock - ConcRequests
    /\ readings = {[cpu |-> c, mem |-> m] : c \in {0, 7}, m \in {10, 30}}
    /\ recorded = <<>>

\* stats, lines 57-93: measure under the SYSTEM lock, stamp the sample
StatsMeasure(w) ==
    /\ w_pc[w] = "idle"
    /\ clock < MaxClock
    /\ clock' = clock + 1
    /\ \E r \in readings :
         w_sample' = [w_sample EXCEPT ![w] =
                        [timestamp |-> clock', cpu_usage |-> r.cpu, mem_used_mb |-> r.mem]]
    /\ w_pc' = [w_pc EXCEPT ![w] = "measured"]
    /\ UNCHANGED <<tracker, lockHolder, readings, recorded>>
    /\ UNCHANGED <<translateVars, asrVars>>

\* stats, line 96: PERFORMANCE_TRACKER.lock()
StatsLock(w) ==
    /\ w_pc[w] = "measured"
    /\ lockHolder = 0
    /\ lockHolder' = w
    /\ w_pc' = [w_pc EXCEPT ![w] = "locked"]
    /\ UNCHANGED <<tracker, w_sample, clock, readings, recorded>>
    /\ UNCHANGED <<translateVars, asrVars>>

\* stats, lines 99-104
StatsUpdatePeaks(w) ==
    /\ w_pc[w] = "locked"
    /\ tracker' = UpdatePeaks(tracker, w_sample[w].cpu_usage, w_sample[w].mem_used_mb)
    /\ w_pc' = [w_pc EXCEPT ![w] = "peaks"]
    /\ UNCHANGED <<lockHolder, w_sample, clock, readings, recorded>>
    /\ UNCHANGED <<translateVars, asrVars>>

\* stats, line 107: history.push
StatsPush(w) ==
    /\ w_pc[w] = "peaks"
    /\ tracker' = [tracker EXCEPT !.history = Append(@, w_sample[w])]
    /\ recorded' = Append(recorded, w_sample[w])
    /\ w_pc' = [w_pc EXCEPT ![w] = "pushed"]
    /\ UNCHANGED <<lockHolder, w_sample, clock, readings>>
    /\ UNCHANGED <<translateVars, asrVars>>

\* stats, lines 110-115: trim the history, copy it out, drop the guard
StatsTrimUnlock(w) ==
    /\ w_pc[w] = "pushed"
    /\ tracker' = [tracker EXCEPT !.history = KeepRecent(@, tracker.max_history)]
    /\ lockHolder' = 0
    /\ w_pc' = [w_pc EXCEPT ![w] = "idle"]
    /\ UNCHANGED <<w_sample, clock, readings, recorded>>
    /\ UNCHANGED <<translateVars, asrVars>>

\* reset_stats, line 129: PERFORMANCE_TRACKER.lock()
ResetLock(w) ==
    /\ w_pc[w] = "idle"
    /\ lockHolder = 0
    /\ lockHolder' = w
    /\ w_pc' = [w_pc EXCEPT ![w] = "reset_locked"]
    /\ UNCHANGED <<tracker, w_sample, clock, readings, recorded>>
    /\ UNCHANGED <<translateVars, asrVars>>

\* reset_stats, lines 130-131
ResetPeaks(w) ==
    /\ w_pc[w] = "reset_locked"
    /\ tracker' = [tracker EXCEPT !.peak_cpu = 0, !.peak_mem = 0]
    /\ w_pc' = [w_pc EXCEPT ![w] = "reset_peaks"]
    /\ UNCHANGED <<lockHolder, w_sample, clock, readings, recorded>>
    /\ UNCHANGED <<translateVars, asrVars>>

\* reset_stats, lines 132-138: history.clear(), respond, drop the guard
ResetClearUnlock(w) ==
    /\ w_pc[w] = "reset_peaks"
    /\ tracker' = [tracker EXCEPT !.history = <<>>]
    /\ recorded' = <<>>
    /\ lockHolder' = 0
    /\ w_pc' = [w_pc EXCEPT ![w] = "idle"]
    /\ UNCHANGED <<w_sample, clock, readings>>
    /\ UNCHANGED <<translateVars, asrVars>>

StatsNext ==
    \/ \E w \in Workers : StatsMeasure(w)
    \/ \E w \in Workers : StatsLock(w)
    \/ \E w \in Workers : StatsUpdatePeaks(w)
    \/ \E w \in Workers : StatsPush(w)
    \/ \E w \in Workers : StatsTrimUnlock(w)
    \/ \E w \in Workers : ResetLock(w)
    \/ \E w \in Workers : ResetPeaks(w)
    \/ \E w \in Workers : ResetClearUnlock(w)

(***************************************************************************)
(* Specifications: one per component, and their union.                     *)
(***************************************************************************)
InitTranslate == TranslateInit /\ AsrIdle /\ StatsIdle
InitAsr == TranslateIdle /\ AsrInit /\ StatsIdle
InitStatsSeq == TranslateIdle /\ AsrIdle /\ StatsSeqInit
InitStatsConc == TranslateIdle /\ AsrIdle /\ StatsConcInit

SpecTranslate == InitTranslate /\ [][TranslateNext]_vars
SpecAsr == InitAsr /\ [][AsrNext]_vars
SpecStatsSeq == InitStatsSeq /\ [][StatsNext]_vars
SpecStatsConc == InitStatsConc /\ [][StatsNext]_vars

Init == InitTranslate \/ InitAsr \/ InitStatsSeq \/ InitStatsConc
Next == TranslateNext \/ AsrNext \/ StatsNext
Spec == Init /\ [][Next]_vars

(***************************************************************************)
(* Properties.                                                             *)
(***************************************************************************)
AllWhitespace(s) == \A i \in 1..Len(s) : s[i] \in {" ", "\t", "\n"}

\* s is key written in any letter case, with any whitespace around it
IsVariantOf(s, key) ==
    \E i \in 1..Len(s) :
        /\ i + Len(key) - 1 <= Len(s)
        /\ \A k \in 1..Len(key) : s[i + k - 1] = key[k] \/ ToLowerChar(s[i + k - 1]) = key[k]
        /\ \A k \in 1..Len(s) : (k < i \/ k > i + Len(key) - 1) => s[k] \in {" ", "\t", "\n"}

\* the keys of the phrase table of direction d
PhraseKeys(d) == UNION {Arms(d)[i].pats : i \in 1..Len(Arms(d))}

Hola == <<"h", "o", "l", "a">>
Hello == <<"H", "e", "l", "l", "o">>
HowAreYou == <<"H", "o", "w", " ", "a", "r", "e", " ", "y", "o", "u", "?">>
ComoEstas == <<"¿", "C", "ó", "m", "o", " ", "e", "s", "t", "á", "s", "?">>

\* C1: translate() of an empty or whitespace-only input returns Ok("") for either
\* direction, and on that path the model path is never checked, no executable is
\* spawned and no phrase-table lookup is made, whether or not the model exists.
C1_BlankInputShortCircuits ==
    (t_pc # "idle" /\ AllWhitespace(req.text)) =>
        /\ ~modelChecked
        /\ invoked = <<>>
        /\ lookups = 0
        /\ t_pc = "done" => t_result = [ok |-> TRUE, val |-> <<>>, err |-> "none"]

C1_Witness ==
    /\ t_pc = "done"
    /\ req.text = <<" ", " ">>
    /\ ~modelExists
    /\ t_result.ok
    /\ t_result.val = <<>>

\* C2: translate() returns an error exactly when the input is non-blank and the
\* model path does not exist; the error is the model-not-found error and no
\* executable was spawned before it; with the model present every non-blank input
\* gives Ok, whatever the executables did.
C2_ErrorIffModelMissing ==
    t_pc = "done" =>
        /\ ~t_result.ok <=> (~AllWhitespace(req.text) /\ ~modelExists)
        /\ ~t_result.ok => (t_result.err = "Gemma model not found" /\ invoked = <<>>)

C2_Witness ==
    /\ t_pc = "done"
    /\ modelExists
    /\ ~AllWhitespace(req.text)
    /\ Len(invoked) = 4
    /\ cli.ok = FALSE
    /\ t_result.ok

\* C3: on the fallback path, an input that is a phrase-table key of the requested
\* direction up to letter case and surrounding whitespace is translated to that
\* key's fixed value; "hola" gives "Hello" and "How are you?" gives "¿Cómo estás?".
C3_FallbackTableHit ==
    (t_pc = "done" /\ usedFallback) =>
        /\ \A i \in 1..Len(Arms(dir)) : \A key \in Arms(dir)[i].pats :
               IsVariantOf(req.text, key) => t_result = Ok(Arms(dir)[i].val)
        /\ (dir = "EsToEn" /\ IsVariantOf(req.text, Hola)) => t_result.val = Hello
        /\ (dir = "EnToEs" /\ IsVariantOf(req.text, ToLowercase(HowAreYou)))
               => t_result.val = ComoEstas

C3_Witness ==
    /\ t_pc = "done"
    /\ usedFallback
    /\ dir = "EnToEs"
    /\ req.text = <<"\t", "H", "O", "W", " ", "A", "R", "E", " ", "Y", "O", "U", "?">>
    /\ t_result.val = ComoEstas

TagEsToEn == <<"[", "T", "r", "a", "n", "s", "l", "a", "t", "i", "o", "n", "]", " ">>
TagEnToEs == <<"[", "T", "r", "a", "d", "u", "c", "c", "i", "ó", "n", "]", " ">>

\* C4: on the fallback path, an input that is no phrase-table key of the requested
\* direction (up to letter case and surrounding whitespace) is returned behind the
\* direction's literal tag, exactly as passed in: untrimmed, original letter case.
C4_FallbackTableMiss ==
    (t_pc = "done" /\ usedFallback
        /\ \A key \in PhraseKeys(dir) : ~IsVariantOf(req.text, key)) =>
        t_result = Ok((IF dir = "EsToEn" THEN TagEsToEn ELSE TagEnToEs) \o req.text)

C4_Witness ==
    /\ t_pc = "done"
    /\ usedFallback
    /\ dir = "EnToEs"
    /\ req.text = <<" ", "n", "N">>
    /\ t_result.val = TagEnToEs \o <<" ", "n", "N">>

\* C5: the text a successful transcription returns is the backend's text with
\* leading and trailing whitespace removed.
C5_ReturnedTextIsTrimmed ==
    (a_pc = "done" /\ a_result.ok) => a_result.val = Trim(a_answer)

NoSpeech == [ok |-> FALSE, val |-> <<>>, err |-> "No speech detected in audio file"]

\* C6: when the backend that answered returned an empty or whitespace-only text,
\* transcription ends with the no-speech error; no Ok result is empty or
\* whitespace-only.
C6_BlankTextIsNoSpeech ==
    a_pc = "done" =>
        /\ (answeredBy # "" /\ AllWhitespace(a_answer)) => a_result = NoSpeech
        /\ a_result.ok => ~AllWhitespace(a_result.val)

C6_Witness ==
    /\ a_pc = "done"
    /\ answeredBy = "http://localhost:5000/transcribe"
    /\ a_answer = <<" ", "\n">>
    /\ a_result = NoSpeech

LocalOrder ==
    <<"http://localhost:8000/transcribe",
      "http://localhost:5000/transcribe",
      "http://127.0.0.1:8000/transcribe">>

\* a request that ended with a 2xx status and a body that parses as {text}
Acceptable(c) == c.kind = "response" /\ c.status \in 200..299 /\ c.parses

\* C7: local probing contacts localhost:8000, localhost:5000, 127.0.0.1:8000 in
\* that order, each at most once; the first candidate with a success status and a
\* parsable body gives the text and is the last one contacted; every other
\* outcome advances to the next candidate; the no-local-backend error is returned
\* exactly when all three were contacted and none was accepted.
C7_LocalProbing ==
    a_cfg.use_local =>
        /\ Len(contacted) <= 3
        /\ \A i \in 1..Len(contacted) : contacted[i].url = LocalOrder[i]
        /\ \A i \in 1..(Len(contacted) - 1) : ~Acceptable(contacted[i])
        /\ answeredBy # "" =>
              /\ contacted # <<>>
              /\ Acceptable(contacted[Len(contacted)])
              /\ contacted[Len(contacted)].url = answeredBy
        /\ answeredBy = "" => \A i \in 1..Len(contacted) : ~Acceptable(contacted[i])
        /\ (a_pc = "done" /\ a_result.ok) => (answeredBy # "" /\ a_result.val = a_answer)
        /\ a_pc = "done" =>
              (a_result.err = "No local Whisper API found"
                  <=> (Len(contacted) = 3 /\ answeredBy = ""))
        /\ (a_pc = "done" /\ audioLoaded /\ answeredBy = "") => Len(contacted) = 3

C7_Witness ==
    /\ a_pc = "done"
    /\ a_cfg.use_local
    /\ Len(contacted) = 2
    /\ contacted[1].kind = "send_err"
    /\ answeredBy = "http://localhost:5000/transcribe"
    /\ a_result.ok

\* C8: with use_local false, no request ever goes to a local endpoint and at most
\* one request is sent; without an API key no request is sent at all and, once
\* the audio is loaded, the result is the configuration error; with a key, a
\* non-success status gives the API error carrying the body as read, after
\* exactly one request.
C8_HostedBackend ==
    ~a_cfg.use_local =>
        /\ Len(contacted) <= 1
        /\ \A i \in 1..Len(contacted) :
               contacted[i].url = "https://api.openai.com/v1/audio/transcriptions"
        /\ a_cfg.api_key = "None" =>
              /\ contacted = <<>>
              /\ answeredBy = ""
              /\ (a_pc = "done" /\ audioLoaded) =>
                     a_result = [ok |-> FALSE, val |-> <<>>, err |-> "OpenAI API key required"]
        /\ (a_pc = "done" /\ hosted.kind = "response" /\ hosted.status \notin 200..299) =>
              /\ ~a_result.ok
              /\ a_result.err = "OpenAI API error"
              /\ hosted.body.readable => a_result.val = RawBody(hosted.body)
              /\ Len(contacted) = 1

C8_Witness ==
    /\ a_pc = "done"
    /\ ~a_cfg.use_local
    /\ a_cfg.api_key = "None"
    /\ audioLoaded
    /\ contacted = <<>>
    /\ a_result.err = "OpenAI API key required"

\* C9: POST /translate answers 400 {ok:false, error} for a direction token other
\* than "es-en" and "en-es", without calling the engine; 500 {ok:false, error}
\* when the engine returns an error; otherwise 200 {ok:true, direction, original,
\* translated} with direction and original echoing the request.
C9_TranslateEnvelope ==
    h_pc = "responded" =>
        IF req.direction \notin {"es-en", "en-es"}
        THEN /\ response.status = 400
             /\ DOMAIN response.body = {"ok", "error"}
             /\ response.body.ok = FALSE
             /\ t_pc = "idle" /\ ~modelChecked /\ invoked = <<>> /\ lookups = 0
        ELSE IF ~t_result.ok
             THEN /\ response.status = 500
                  /\ DOMAIN response.body = {"ok", "error"}
                  /\ response.body.ok = FALSE
             ELSE /\ response.status = 200
                  /\ DOMAIN response.body = {"ok", "direction", "original", "translated"}
                  /\ response.body.ok = TRUE
                  /\ response.body.direction = req.direction
                  /\ response.body.original = req.text
                  /\ response.body.translated = t_result.val

C9_Witness ==
    /\ h_pc = "responded"
    /\ req.direction = "es-en"
    /\ req.text = <<"N", "o", " ">>
    /\ ~modelExists
    /\ response.status = 500
    /\ response.body.ok = FALSE

\* C10: whenever the tracker lock is free the history holds at most 60 samples,
\* and after more than 60 /stats requests since the last reset it is exactly the
\* 60 most recently pushed samples, oldest first.
C10_HistoryKeepsLast60 ==
    lockHolder = 0 =>
        /\ Len(tracker.history) <= 60
        /\ Len(recorded) > 60 =>
              tracker.history = SubSeq(recorded, Len(recorded) - 59, Len(recorded))

C10_Witness ==
    /\ lockHolder = 0
    /\ Len(recorded) = 63
    /\ Len(tracker.history) = 60
    /\ tracker.history[1].timestamp = 4
    /\ tracker.history[60].timestamp = 63

\* C11: Direction::from_str gives the Spanish-to-English direction for exactly
\* "es-en", the English-to-Spanish direction for exactly "en-es", and None for
\* every other token, other letter cases and surrounding whitespace included.
C11_DirectionParsingIsExact ==
    h_pc # "recv" =>
        /\ req.direction = "es-en" <=> dir = "EsToEn"
        /\ req.direction = "en-es" <=> dir = "EnToEs"
        /\ req.direction \notin {"es-en", "en-es"} <=> dir = "None"
        /\ dir = "None" <=> (t_pc = "idle" /\ response.status = 400)

C11_Witness ==
    /\ h_pc = "responded"
    /\ req.direction = "ES-EN"
    /\ dir = "None"
    /\ response.status = 400

Candidates == <<"llama", "llama-cli", "main", "./llama.cpp/main">>

\* C12 as stated: the candidates are tried in the order llama, llama-cli, main,
\* ./llama.cpp/main, each at most once, and once a candidate has exited with
\* success no later candidate is spawned.
C12_FirstSuccessfulExitIsTaken ==
    /\ invoked = SubSeq(Candidates, 1, Len(invoked))
    /\ firstSuccess # 0 => Len(invoked) = firstSuccess

\* C12 amended: the candidates are tried in that order, each at most once; the
\* candidate taken is the first that exits with success and prints non-blank text
\* after the marker line; it is the last one spawned and its text alone is the
\* primary result; a candidate that exits with success without such text is
\* passed over like a failed one; with no such candidate all four are spawned and
\* translate falls back to the phrase table.
C12_FirstUsableCandidateIsTaken ==
    /\ invoked = SubSeq(Candidates, 1, Len(invoked))
    /\ firstSuccess <= Len(invoked)
    /\ usable.idx # 0 =>
          /\ Len(invoked) = usable.idx
          /\ firstSuccess # 0 /\ firstSuccess <= usable.idx
          /\ cli = [ok |-> TRUE, val |-> usable.text, err |-> "none"]
    /\ t_pc \in {"after_cli", "done"} /\ invoked # <<>> =>
          /\ cli.ok <=> usable.idx # 0
          /\ ~cli.ok => Len(invoked) = 4
    /\ t_pc = "done" /\ invoked # <<>> =>
          /\ usable.idx # 0 => (t_result.val = usable.text /\ ~usedFallback)
          /\ usable.idx = 0 => usedFallback

C12_Witness ==
    /\ t_pc = "done"
    /\ firstSuccess = 1
    /\ usable.idx = 3
    /\ invoked = <<"llama", "llama-cli", "main">>
    /\ t_result.val = <<"H">>
    /\ ~usedFallback

\* the largest element of a non-empty set of numbers
Largest(S) == CHOOSE x \in S : \A y \in S : y <= x

\* the tracker lock is held by exactly the worker that is inside a critical section
LockSerialises ==
    \A w \in DOMAIN w_pc :
        w_pc[w] \in {"locked", "peaks", "pushed", "reset_locked", "reset_peaks"}
            <=> lockHolder = w

\* with the lock free: each peak is the maximum over the samples pushed since the
\* last reset (0 if none), so no sample in the history exceeds a peak
PeaksDominate ==
    lockHolder = 0 =>
        /\ \A i \in 1..Len(tracker.history) :
               /\ tracker.peak_cpu >= tracker.history[i].cpu_usage
               /\ tracker.peak_mem >= tracker.history[i].mem_used_mb
        /\ tracker.peak_cpu =
               Largest({0} \cup {recorded[i].cpu_usage : i \in 1..Len(recorded)})
        /\ tracker.peak_mem =
               Largest({0} \cup {recorded[i].mem_used_mb : i \in 1..Len(recorded)})
        /\ Len(recorded) <= 60 => tracker.history = recorded

\* the step in which a /reset-stats handler releases the lock leaves the history
\* empty and both peaks 0
ResetIsAtomic ==
    (\E w \in DOMAIN w_pc : w_pc[w] \in {"reset_locked", "reset_peaks"} /\ lockHolder' = 0)
        => /\ tracker'.history = <<>>
           /\ tracker'.peak_cpu = 0
           /\ tracker'.peak_mem = 0

\* C13: under every interleaving of concurrent /stats and /reset-stats requests,
\* whenever the tracker lock is free peak_cpu and peak_mem are at least the
\* cpu_usage and mem_used_mb of every sample in the history and equal the maximum
\* over the samples recorded since the last reset (0 if none); a reset leaves the
\* history empty and both peaks 0 by the time it releases the lock.
C13_PeaksDominateHistory ==
    /\ [](LockSerialises /\ PeaksDominate)
    /\ [][ResetIsAtomic]_vars

C13_Witness ==
    /\ lockHolder = 0
    /\ \E w \in DOMAIN w_pc : w_pc[w] = "measured"
    /\ Len(tracker.history) = 2
    /\ tracker.history[1].timestamp > tracker.history[2].timestamp
    /\ tracker.history[1].cpu_usage = 7
    /\ tracker.history[2].cpu_usage = 0
    /\ tracker.peak_cpu = 7

====
